---- MODULE Spec2Model ----
(***************************************************************************)
(* A model of the ingestion pipeline and its scheduler                     *)
(* (src/app/ingestion.py, src/app/crud.py, src/app/main.py,                *)
(* src/app/scheduler.py), of the feature engine (src/app/features.py), of  *)
(* the event classifier (src/app/nlp.py) and of the model trainer and      *)
(* scorer (src/app/ml.py).                                                 *)
(*                                                                         *)
(* Strings are tuples of one-character strings, so that str.strip() is a   *)
(* real conversion; Python's None is the value None below.  A float is an  *)
(* exact fraction <<numerator, denominator>> in lowest terms.              *)
(***************************************************************************)
EXTENDS Integers, Sequences, FiniteSets, TLC

VARIABLES
    feed,      \* what feedparser.parse returns for each url of `feeds`
    news,      \* the news table, in id order (id = position)
    rss,       \* what the last ingest_rss call did
    hist,      \* what the price provider returns for each issuer with a ticker
    events,    \* the events table, in id order
    price,     \* what the last ingest_yahoo_prices call did
    nlp,       \* the run_nlp_on_news call in progress, and what the last did
    tasks,     \* every task asyncio.create_task(self._runner()) made, in order
    task,      \* IngestionScheduler._task: a position in tasks, or NoTask
    stop_event,     \* IngestionScheduler._stop_event is set
    stoppers,       \* the tasks that stop() calls in progress await
    stop_requested, \* stop() has been called and start() has not been since
    fundamentals,   \* the fundamentals table, in id order
    feat,           \* what the last compute_features_for_issuer call returned
    model_file,     \* the file at MODEL_PATH
    explainer_file, \* the file at EXPLAINER_PATH
    calls,          \* the predict_and_explain and train_model_if_needed calls
    safe_div,       \* a _safe_div call: its operands and what it returned
    classify,       \* a classify_event call: its text and what it returned
    label           \* a _synthesize_label_from_row call: row, noise, result

rssVars == <<feed, news, rss>>

priceVars == <<hist, events, price>>

nlpVars == <<nlp>>

dbVars == <<feed, news, rss, hist, events, price, nlp>>

schedVars == <<tasks, task, stop_event, stoppers, stop_requested>>

featVars == <<fundamentals, feat>>

mlVars == <<model_file, explainer_file, calls>>

pureVars == <<safe_div, classify, label>>

scoreVars == <<fundamentals, feat, model_file, explainer_file, calls,
               safe_div, classify, label>>

vars == <<feed, news, rss, hist, events, price, nlp,
          tasks, task, stop_event, stoppers, stop_requested,
          fundamentals, feat, model_file, explainer_file, calls,
          safe_div, classify, label>>

----------------------------------------------------------------------------
(* Values *)

None == <<"<None>">>

WS == " "

\* Python truthiness of an Optional[str]: None and "" are falsy
Falsy(x) == x = None \/ x = << >>

RECURSIVE LStrip(_)
LStrip(s) == IF s # << >> /\ Head(s) = WS THEN LStrip(Tail(s)) ELSE s

RECURSIVE RStrip(_)
RStrip(s) ==
    IF s # << >> /\ s[Len(s)] = WS THEN RStrip(SubSeq(s, 1, Len(s) - 1)) ELSE s

\* str.strip()
Strip(s) == RStrip(LStrip(s))

\* the urls ingest_rss is called with (its `feeds` argument)
Urls == <<"u1", "u2">>

\* bound: entries over all sources of one feed content
MaxEntries == 3

\* bound: rows POST /news may add
MaxNews == 2

LinkA == <<"a">>
LinkB == <<"b">>
LinkPadA == <<WS, "a">>

\* the entries a source may offer: complete ones (one with a padded link),
\* one without summary/description, one without link, one without title
FeedEntries ==
    { [link |-> LinkA,    title |-> <<"u">>, summary |-> <<"s">>],
      [link |-> LinkB,    title |-> <<"u">>, summary |-> <<"s">>],
      [link |-> LinkPadA, title |-> <<"u">>, summary |-> <<"s">>],
      [link |-> LinkA,    title |-> <<"u">>, summary |-> None],
      [link |-> None,     title |-> <<"u">>, summary |-> <<"s">>],
      [link |-> LinkB,    title |-> None,    summary |-> None] }

SeqsUpTo(S, n) == UNION { [1..k -> S] : k \in 0..n }

\* a source: feedparser.parse(url) raises, or returns d.entries
Sources ==
    { [raises |-> TRUE, entries |-> << >>] } \cup
    { [raises |-> FALSE, entries |-> es] : es \in SeqsUpTo(FeedEntries, MaxEntries) }

Feeds ==
    { f \in [1..Len(Urls) -> Sources] :
        Len(f[1].entries) + Len(f[2].entries) <= MaxEntries }

----------------------------------------------------------------------------
(* Floats *)

Abs(n) == IF n < 0 THEN -n ELSE n

RECURSIVE Gcd(_, _)
Gcd(a, b) == IF b = 0 THEN a ELSE Gcd(b, a % b)

\* the fraction n/d (d # 0) in lowest terms, with a positive denominator
Frac(n, d) ==
    LET g == Gcd(Abs(n), Abs(d))
        sgn == IF d < 0 THEN -1 ELSE 1
    IN <<(sgn * n) \div g, Abs(d) \div g>>

Zero == <<0, 1>>

FAbs(x) == <<Abs(x[1]), x[2]>>

FNeg(x) == <<-x[1], x[2]>>

FAdd(x, y) == Frac(x[1] * y[2] + y[1] * x[2], x[2] * y[2])

FSub(x, y) == FAdd(x, FNeg(y))

FMul(x, y) == Frac(x[1] * y[1], x[2] * y[2])

\* x < y
FLess(x, y) == x[1] * y[2] < y[1] * x[2]

\* Python's x / y on floats: ZeroDivisionError when y is 0.0
truediv(x, y) ==
    IF y[1] = 0 THEN [error |-> "ZeroDivisionError", value |-> Zero]
    ELSE [error |-> "", value |-> Frac(x[1] * y[2], x[2] * y[1])]

\* Python's `x or 0.0` for an Optional[float]
OrZero(x) == IF x = None \/ x = Zero THEN Zero ELSE x

----------------------------------------------------------------------------
(* crud.py *)

\* a row is referred to by its id, its position in the table; 0 is no row
NoRow == 0

\* crud.get_news_by_link: the first row with exactly this link, or no row
get_news_by_link(rows, link) ==
    IF \E i \in 1..Len(rows) : rows[i].link = link
    THEN CHOOSE i \in 1..Len(rows) :
             rows[i].link = link /\ \A j \in 1..(i - 1) : rows[j].link # link
    ELSE NoRow

\* a plausible create_news: db.add of whatever it is given, on a table
\* without the unique index
create_news_unchecked(rows, obj) ==
    [error |-> "",
     rows  |-> Append(rows, [link |-> obj.link, title |-> obj.title,
                             summary |-> obj.summary, processed |-> FALSE])]

\* crud.create_news(db, news): news.model_dump() exists on a pydantic
\* schemas.NewsCreate only; a models.News instance has no such attribute.
\* News.link is unique (models.py:41): the commit of a second row with the
\* same link raises IntegrityError.  processed defaults to False.
create_news(rows, obj) ==
    IF obj.kind # "schema"
    THEN [error |-> "AttributeError", rows |-> rows]
    ELSE IF \E i \in 1..Len(rows) : rows[i].link = obj.link
    THEN [error |-> "IntegrityError", rows |-> rows]
    ELSE [error |-> "",
          rows  |-> Append(rows, [link |-> obj.link, title |-> obj.title,
                                  summary |-> obj.summary, processed |-> FALSE])]

----------------------------------------------------------------------------
(* ingestion.py: ingest_rss *)

\* the state threaded through one source: the table, the count of inserts,
\* the outcome of each entry reached, and the exception that ended the source
RssSt(rows, inserted, out, error) ==
    [rows |-> rows, inserted |-> inserted, out |-> out, error |-> error]

\* lines 30-55, the loop over d.entries from entry k on
RECURSIVE ingest_entries(_, _, _)
ingest_entries(st, entries, k) ==
    IF k > Len(entries) THEN st
    ELSE
      LET entry == entries[k]
          link  == entry.link
          title == entry.title
      IN
      \* line 33: `getattr(entry, "summary", None) or getattr(entry,
      \* "description", None, None)`; the four-argument getattr is a TypeError,
      \* reached whenever the summary is falsy
      IF Falsy(entry.summary)
      THEN RssSt(st.rows, st.inserted, Append(st.out, "TypeError"), "TypeError")
      \* lines 43-44
      ELSE IF Falsy(link) \/ Falsy(title)
      THEN ingest_entries(
             RssSt(st.rows, st.inserted, Append(st.out, "discarded"), ""),
             entries, k + 1)
      \* lines 46-48: the lookup uses the link as parsed, not stripped
      ELSE IF get_news_by_link(st.rows, link) # NoRow
      THEN ingest_entries(
             RssSt(st.rows, st.inserted, Append(st.out, "duplicate"), ""),
             entries, k + 1)
      \* lines 49-55
      ELSE
        LET r == create_news(st.rows,
                   [kind |-> "orm", title |-> Strip(title), link |-> Strip(link),
                    summary |-> entry.summary])
        IN IF r.error # ""
           THEN RssSt(st.rows, st.inserted, Append(st.out, r.error), r.error)
           ELSE ingest_entries(
                  RssSt(r.rows, st.inserted + 1, Append(st.out, "inserted"), ""),
                  entries, k + 1)

\* lines 27-57, the loop over feeds from source i on; acc collects, per
\* source, the entry outcomes and the exception logged for it ("" if none)
RECURSIVE ingest_sources(_, _, _, _)
ingest_sources(rows, inserted, acc, i) ==
    IF i > Len(Urls)
    THEN [rows |-> rows, inserted |-> inserted, sources |-> acc]
    ELSE
      IF feed[i].raises
      THEN ingest_sources(rows, inserted,
                          Append(acc, [out |-> << >>, logged |-> "ParseError"]),
                          i + 1)
      ELSE
        LET st == ingest_entries(RssSt(rows, inserted, << >>, ""), feed[i].entries, 1)
        IN ingest_sources(st.rows, st.inserted,
                          Append(acc, [out |-> st.out, logged |-> st.error]),
                          i + 1)

\* no ingest_rss call yet
NoRun == [ran |-> FALSE, again |-> FALSE, before |-> << >>, after |-> << >>,
          sources |-> << >>, inserted |-> 0]

\* ingest_rss(db, feeds): one call, start to return
IngestRss ==
    LET r == ingest_sources(news, 0, << >>, 1)
    IN /\ news' = r.rows
       /\ rss' = [ran |-> TRUE, again |-> rss.ran, before |-> news,
                  after |-> r.rows, sources |-> r.sources, inserted |-> r.inserted]
       /\ UNCHANGED <<feed, priceVars, nlpVars>>

\* main.py POST /news (create_news endpoint, lines 73-77): the link as given
PostNews(link, title) ==
    /\ Len(news) < MaxNews
    /\ get_news_by_link(news, link) = NoRow
    /\ LET r == create_news(news, [kind |-> "schema", title |-> title,
                                   link |-> link, summary |-> None])
       IN /\ r.error = ""
          /\ news' = r.rows
    /\ UNCHANGED <<feed, rss, priceVars, nlpVars>>

----------------------------------------------------------------------------
(* ingestion.py: ingest_yahoo_prices *)

\* the issuers table: two issuers with a ticker, one whose ticker is blank,
\* one without ticker
Issuers ==
    << [name |-> <<"a", "c">>, ticker |-> <<"A">>],
       [name |-> <<"b", "p">>, ticker |-> <<"B">>],
       [name |-> <<"g">>,      ticker |-> <<WS>>],
       [name |-> <<"h">>,      ticker |-> None] >>

\* the issuers the provider is asked about: ticker not NULL (line 68) and
\* not empty once stripped (lines 70-72)
Tracked ==
    { i \in 1..Len(Issuers) :
        Issuers[i].ticker # None /\ Strip(Issuers[i].ticker) # << >> }

HoursPerDay == 24

\* an instant is a count of hours; its calendar day
DateOf(t) == t \div HoursPerDay

\* the index values of a provider series: a wall-clock hour count, naive
\* (tzinfo None) or aware with a utc offset in hours; nanVolume marks a row whose Volume is NaN,
\* for which int(row.get("Volume", 0)) raises ValueError (line 101)
Samples ==
    { [local |-> 24, aware |-> FALSE, utcoffset |-> 0,  nanVolume |-> FALSE],
      [local |-> 36, aware |-> FALSE, utcoffset |-> 0,  nanVolume |-> FALSE],
      [local |-> 48, aware |-> FALSE, utcoffset |-> 0,  nanVolume |-> FALSE],
      [local |-> 48, aware |-> TRUE,  utcoffset |-> 12, nanVolume |-> FALSE],
      [local |-> 48, aware |-> FALSE, utcoffset |-> 0,  nanVolume |-> TRUE] }

\* bound: samples over all series of one provider state
MaxSamples == 2

RECURSIVE SumLen(_, _)
SumLen(h, S) ==
    IF S = {} THEN 0
    ELSE LET i == CHOOSE x \in S : TRUE
         IN Len(h[i].rows) + SumLen(h, S \ {i})

\* pd_timestamp_to_datetime, for a pandas Timestamp: a naive one is taken as
\* utc, an aware one is converted to utc
pd_timestamp_to_datetime(ts) ==
    IF ~ts.aware THEN ts.local ELSE ts.local - ts.utcoffset

\* SQLite strftime('%Y-%m-%dT%H:%M:%fZ', timestamp) and datetime.isoformat()
\* of an aware utc datetime, as the text they produce
sqlite_strftime(t) == [instant |-> t, seconds |-> "SS.SSS", suffix |-> "Z"]
isoformat(t) == [instant |-> t, seconds |-> "SS", suffix |-> "+00:00"]

\* lines 84-87: an event of this issuer whose formatted timestamp equals the
\* iso text of ts_utc
exists_exact(evs, issuer_id, ts_utc) ==
    \E e \in 1..Len(evs) :
        /\ evs[e].issuer_id = issuer_id
        /\ sqlite_strftime(evs[e].timestamp) = isoformat(ts_utc)

\* a dedupe by exact instant instead of by day
exists_same_instant(evs, issuer_id, ts_utc) ==
    \E e \in 1..Len(evs) :
        /\ evs[e].issuer_id = issuer_id
        /\ evs[e].event_type = "price"
        /\ evs[e].timestamp = ts_utc

\* lines 89-93: a price event of this issuer on the calendar day of ts_utc
exists_same_day(evs, issuer_id, ts_utc) ==
    \E e \in 1..Len(evs) :
        /\ evs[e].issuer_id = issuer_id
        /\ evs[e].event_type = "price"
        /\ DateOf(evs[e].timestamp) = DateOf(ts_utc)

PriceEvent(issuer_id, ts_utc) ==
    [issuer_id |-> issuer_id, news_id |-> NoRow, event_type |-> "price",
     timestamp |-> ts_utc, sentiment |-> None]

\* lines 80-116, the loop over hist.iterrows() from row k on; each insert is
\* committed at once, so what was inserted stays when a later row raises
RECURSIVE ingest_rows(_, _, _, _)
ingest_rows(st, issuer_id, rows, k) ==
    IF k > Len(rows) THEN st
    ELSE
      LET ts_utc == pd_timestamp_to_datetime(rows[k])
      IN IF exists_exact(st.evs, issuer_id, ts_utc)
            \/ exists_same_day(st.evs, issuer_id, ts_utc)
         THEN ingest_rows(st, issuer_id, rows, k + 1)
         ELSE IF rows[k].nanVolume
         THEN [st EXCEPT !.error = "ValueError"]
         ELSE ingest_rows(
                [evs |-> Append(st.evs, PriceEvent(issuer_id, ts_utc)),
                 inserted |-> st.inserted + 1, error |-> ""],
                issuer_id, rows, k + 1)

\* a provider failure that leaves ingest_yahoo_prices: no issuer after it
after_provider_error_raise(i) == Len(Issuers) + 1

\* lines 73-74 inside the try of line 72, caught at lines 117-118: the loop
\* goes on with the issuer after i
after_provider_error(i) == i + 1

\* lines 69-118, the loop over the issuers with a ticker, in id order; acc
\* maps each issuer handled to the exception logged for it ("" if none)
RECURSIVE ingest_issuers(_, _, _, _)
ingest_issuers(evs, inserted, acc, i) ==
    IF i > Len(Issuers)
    THEN [evs |-> evs, inserted |-> inserted, issuers |-> acc]
    ELSE IF i \notin Tracked
    THEN ingest_issuers(evs, inserted, Append(acc, "skipped"), i + 1)
    ELSE IF hist[i].raises
    THEN ingest_issuers(evs, inserted, Append(acc, "ProviderError"),
                        after_provider_error(i))
    ELSE
      LET st == ingest_rows([evs |-> evs, inserted |-> inserted, error |-> ""],
                            i, hist[i].rows, 1)
      IN ingest_issuers(st.evs, st.inserted, Append(acc, st.error), i + 1)

\* no ingest_yahoo_prices call yet
NoPriceRun == [ran |-> FALSE, same |-> FALSE, again |-> FALSE,
               issuers |-> << >>, inserted |-> 0]

\* ingest_yahoo_prices(db): one call, start to return.  `same` says that the
\* provider has not changed since the call; `again` that this call saw the
\* provider data of the call before it
IngestYahooPrices ==
    LET r == ingest_issuers(events, 0, << >>, 1)
    IN /\ events' = r.evs
       /\ price' = [ran |-> TRUE, same |-> TRUE, again |-> price.same,
                    issuers |-> r.issuers, inserted |-> r.inserted]
       /\ UNCHANGED <<hist, rssVars, nlpVars>>

\* the provider has a new sample for issuer i
ProviderAppend(i, s) ==
    /\ SumLen(hist, Tracked) < MaxSamples
    /\ hist' = [hist EXCEPT ![i].rows = Append(@, s)]
    /\ price' = [price EXCEPT !.same = FALSE]
    /\ UNCHANGED <<events, rssVars, nlpVars>>

\* the provider starts or stops failing for issuer i
ProviderToggle(i) ==
    /\ hist' = [hist EXCEPT ![i].raises = ~@]
    /\ price' = [price EXCEPT !.same = FALSE]
    /\ UNCHANGED <<events, rssVars, nlpVars>>

----------------------------------------------------------------------------
(* nlp.py *)

\* str.lower(), on the letters the model uses
LowerChar(c) ==
    CASE c = "A" -> "a" [] c = "B" -> "b" [] c = "Q" -> "q"
      [] c = "C" -> "c" [] c = "E" -> "e" [] c = "O" -> "o"
      [] c = "M" -> "m" [] c = "S" -> "s" [] OTHER -> c

Lower(s) == [i \in 1..Len(s) |-> LowerChar(s[i])]

\* Python's `needle in hay` for strings
Contains(hay, needle) ==
    \E i \in 1..(Len(hay) - Len(needle) + 1) :
        SubSeq(hay, i, i + Len(needle) - 1) = needle

\* the keyword table, in dict order
KEYWORDS ==
    << [etype |-> "earnings",
        kws |-> <<<<"e", "a", "r", "n", "i", "n", "g", "s">>,
                  <<"q", "1">>,
                  <<"q", "2">>,
                  <<"q", "3">>,
                  <<"q", "4">>,
                  <<"q", "u", "a", "r", "t", "e", "r">>,
                  <<"r", "e", "s", "u", "l", "t", "s">>,
                  <<"p", "r", "o", "f", "i", "t">>>>],
       [etype |-> "merger",
        kws |-> <<<<"m", "e", "r", "g", "e", "r">>,
                  <<"a", "c", "q", "u", "i", "r", "e">>,
                  <<"a", "c", "q", "u", "i", "s", "i", "t", "i", "o", "n">>,
                  <<"b", "u", "y", "o", "u", "t">>,
                  <<"t", "a", "k", "e", "o", "v", "e", "r">>>>],
       [etype |-> "downgrade",
        kws |-> <<<<"d", "o", "w", "n", "g", "r", "a", "d", "e">>,
                  <<"c", "u", "t", " ", "r", "a", "t", "i", "n", "g">>,
                  <<"l", "o", "w", "e", "r", "e", "d">>,
                  <<"r", "e", "v", "i", "s", "e", "d", " ", "d", "o", "w", "n">>>>],
       [etype |-> "upgrade",
        kws |-> <<<<"u", "p", "g", "r", "a", "d", "e">>,
                  <<"r", "a", "i", "s", "e", "d">>,
                  <<"r", "e", "i", "t", "e", "r", "a", "t">>,
                  <<"u", "p", "g", "r", "a", "d", "e", "d">>>>],
       [etype |-> "lawsuit",
        kws |-> <<<<"l", "a", "w", "s", "u", "i", "t">>,
                  <<"s", "u", "e", "d">>,
                  <<"l", "e", "g", "a", "l">>,
                  <<"s", "e", "t", "t", "l", "e", "m", "e", "n", "t">>,
                  <<"l", "a", "w", "s", "u", "i", "t", "s">>>>],
       [etype |-> "management",
        kws |-> <<<<"c", "e", "o">>,
                  <<"c", "f", "o">>,
                  <<"r", "e", "s", "i", "g", "n">>,
                  <<"a", "p", "p", "o", "i", "n", "t">>,
                  <<"a", "p", "p", "o", "i", "n", "t", "s">>,
                  <<"b", "o", "a", "r", "d">>>>] >>

\* a classifier that keeps the last category, in table order, that matches
classify_event_last(text) ==
    LET t == Lower(IF text = None THEN << >> ELSE text)
        hits == { c \in 1..Len(KEYWORDS) :
                    \E k \in 1..Len(KEYWORDS[c].kws) :
                        Contains(t, KEYWORDS[c].kws[k]) }
    IN IF hits = {} THEN "other"
       ELSE KEYWORDS[CHOOSE c \in hits : \A d \in hits : c >= d].etype

\* classify_event: the first category, in table order, one of whose keywords
\* occurs in the lower-cased text
classify_event(text) ==
    LET t == Lower(IF text = None THEN << >> ELSE text)
        hits == { c \in 1..Len(KEYWORDS) :
                    \E k \in 1..Len(KEYWORDS[c].kws) :
                        Contains(t, KEYWORDS[c].kws[k]) }
    IN IF hits = {} THEN "other"
       ELSE KEYWORDS[CHOOSE c \in hits : \A d \in hits : c <= d].etype

\* analyzer.polarity_scores(text)["compound"]: 0.0 for a text without a word
\* of the VADER lexicon, as are the titles and summaries of the News rows here
polarity_compound(text) == Zero

\* analyze_sentiment
analyze_sentiment(text) == IF Falsy(text) THEN Zero ELSE polarity_compound(text)

----------------------------------------------------------------------------
(* ingestion.py: run_nlp_on_news *)

OrEmpty(x) == IF Falsy(x) THEN << >> ELSE x

\* lines 155-161 without the break: the last issuer that matches wins
resolve_issuer_last(title) ==
    LET title_l == Lower(OrEmpty(title))
        match(i) ==
            \/ ~Falsy(Issuers[i].ticker) /\ Contains(title_l, Lower(Issuers[i].ticker))
            \/ ~Falsy(Issuers[i].name) /\ Contains(title_l, Lower(Issuers[i].name))
        hits == { i \in 1..Len(Issuers) : match(i) }
    IN IF hits = {} THEN NoRow ELSE CHOOSE i \in hits : \A j \in hits : i >= j

\* lines 151-161: the first issuer, in table order, whose ticker or else
\* whose name occurs in the lower-cased title; no issuer is NoRow
resolve_issuer(title) ==
    LET title_l == Lower(OrEmpty(title))
        match(i) ==
            \/ ~Falsy(Issuers[i].ticker) /\ Contains(title_l, Lower(Issuers[i].ticker))
            \/ ~Falsy(Issuers[i].name) /\ Contains(title_l, Lower(Issuers[i].name))
        hits == { i \in 1..Len(Issuers) : match(i) }
    IN IF hits = {} THEN NoRow ELSE CHOOSE i \in hits : \A j \in hits : i <= j

\* lines 147-171: the event built for news row n
NewsEvent(rows, n) ==
    [issuer_id  |-> resolve_issuer(rows[n].title),
     news_id    |-> n,
     event_type |-> classify_event(OrEmpty(rows[n].title) \o <<WS>>
                                   \o OrEmpty(rows[n].summary)),
     timestamp  |-> 0,
     sentiment  |-> analyze_sentiment(OrEmpty(rows[n].title) \o <<WS>>
                                      \o OrEmpty(rows[n].summary))]

\* a split write: the event is committed on its own before the flag, so a
\* failure between the two leaves the event without the flag
nlp_commit_split(rows, evs, n, ok) ==
    IF ok
    THEN [rows |-> [rows EXCEPT ![n].processed = TRUE],
          evs  |-> Append(evs, NewsEvent(rows, n))]
    ELSE [rows |-> rows, evs |-> Append(evs, NewsEvent(rows, n))]

\* lines 172-175 for row n: db.add(e), n.processed = True and one commit; a
\* commit that raises leaves neither (the session is closed unflushed)
nlp_commit(rows, evs, n, ok) ==
    IF ok
    THEN [rows |-> [rows EXCEPT ![n].processed = TRUE],
          evs  |-> Append(evs, NewsEvent(rows, n))]
    ELSE [rows |-> rows, evs |-> evs]

\* a query without the filter on processed: every row, in id order
all_rows(rows) == [k \in 1..Len(rows) |-> k]

\* line 145: the ids of the unprocessed rows (the rows of the model carry no
\* published_at, so the ORDER BY leaves them in id order)
Unprocessed(rows) ==
    LET ids == { i \in 1..Len(rows) : ~rows[i].processed }
        F[k \in 0..Len(rows)] ==
            IF k = 0 THEN << >>
            ELSE IF k \in ids THEN Append(F[k - 1], k) ELSE F[k - 1]
    IN F[Len(rows)]

\* no run_nlp_on_news call yet
NoNlpRun == [running |-> FALSE, queue |-> << >>, inserted |-> 0,
             result |-> "none", started |-> 0]

\* run_nlp_on_news enters: the query of line 145, which may raise
NlpQuery(ok) ==
    /\ ~nlp.running
    /\ nlp' = IF ok
              THEN [running |-> TRUE, queue |-> Unprocessed(news), inserted |-> 0,
                    result |-> "running", started |-> Len(news)]
              ELSE [NoNlpRun EXCEPT !.result = "raised"]
    /\ UNCHANGED <<news, events, feed, rss, hist, price>>

\* one pass of the loop of lines 146-176, for the head of the rows queried
NlpRow(ok) ==
    /\ nlp.running
    /\ nlp.queue # << >>
    /\ LET r == nlp_commit(news, events, Head(nlp.queue), ok)
       IN /\ news' = r.rows
          /\ events' = r.evs
    /\ nlp' = IF ok
              THEN [nlp EXCEPT !.queue = Tail(@), !.inserted = @ + 1]
              ELSE [nlp EXCEPT !.running = FALSE, !.queue = << >>,
                               !.result = "raised"]
    /\ UNCHANGED <<feed, rss, hist, price>>

\* line 178: the loop is over, the count is returned
NlpReturn ==
    /\ nlp.running
    /\ nlp.queue = << >>
    /\ nlp' = [nlp EXCEPT !.running = FALSE, !.result = "returned"]
    /\ UNCHANGED <<news, events, feed, rss, hist, price>>

----------------------------------------------------------------------------
(* ingestion.py: ingest_all;  scheduler.py: IngestionScheduler *)

NoTask == 0

\* an ingest_all that synthesizes events before it ingests
ingest_all_nlp_first == <<"run_nlp_on_news", "ingest_rss", "ingest_yahoo_prices">>

\* ingest_all, lines 186-188: the calls it makes, in order
ingest_all == <<"ingest_rss", "ingest_yahoo_prices", "run_nlp_on_news">>

\* where a runner stands: about to test the loop condition ("loop"), inside
\* call number `at` of ingest_all ("tick"), inside the loop of
\* run_nlp_on_news ("rows"), in wait_for ("waiting"), or finished ("done");
\* `ran` lists the calls of the current tick that have returned, `failed`
\* says that the last tick ended in the except clause
Runner(pc, at, ran, failed) == [pc |-> pc, at |-> at, ran |-> ran, failed |-> failed]

InTick(t) == t.pc \in {"tick", "rows"}

\* ingest_all runs inside the coroutine without awaiting: while a tick is
\* in progress the event loop runs nothing else
Busy == \E k \in 1..Len(tasks) : InTick(tasks[k])

Stage(k) == ingest_all[tasks[k].at]

\* a runner without the except clause: the exception ends the task
after_exception_uncaught == "done"

\* line 29-30: what becomes of the runner when a tick raises: the exception
\* is logged and the runner goes on to wait_for
after_exception == "waiting"

\* the runner k after call `at` of its tick returned
Advance(k) ==
    LET t == tasks[k]
    IN IF t.at < Len(ingest_all)
       THEN [tasks EXCEPT ![k] = Runner("tick", t.at + 1, Append(t.ran, Stage(k)), FALSE)]
       ELSE [tasks EXCEPT ![k] = Runner("waiting", 0, Append(t.ran, Stage(k)), FALSE)]

\* the runner k after its tick raised
Raise(k) ==
    [tasks EXCEPT ![k] = Runner(after_exception, 0, tasks[k].ran, TRUE)]

\* line 20: the loop condition, tested when the task first runs and after
\* every wait; then line 23, a tick begins
RunnerLoop(k) ==
    /\ tasks[k].pc = "loop"
    /\ ~Busy
    /\ tasks' = [tasks EXCEPT ![k] =
                   IF stop_event THEN [tasks[k] EXCEPT !.pc = "done"]
                   ELSE Runner("tick", 1, << >>, FALSE)]
    /\ UNCHANGED <<task, stop_event, stoppers, stop_requested, dbVars>>

\* line 25, ingest_all: its call of ingest_rss, which catches what its
\* sources raise
TickRss(k) ==
    /\ tasks[k].pc = "tick" /\ Stage(k) = "ingest_rss"
    /\ IngestRss
    /\ tasks' = Advance(k)
    /\ UNCHANGED <<task, stop_event, stoppers, stop_requested>>

\* its call of ingest_yahoo_prices; the query of line 68 is outside the try
\* and may raise
TickPrices(k, ok) ==
    /\ tasks[k].pc = "tick" /\ Stage(k) = "ingest_yahoo_prices"
    /\ IF ok THEN IngestYahooPrices /\ tasks' = Advance(k)
             ELSE UNCHANGED dbVars /\ tasks' = Raise(k)
    /\ UNCHANGED <<task, stop_event, stoppers, stop_requested>>

\* its call of run_nlp_on_news: the query, ...
TickNlpQuery(k, ok) ==
    /\ tasks[k].pc = "tick" /\ Stage(k) = "run_nlp_on_news"
    /\ NlpQuery(ok)
    /\ tasks' = IF ok THEN [tasks EXCEPT ![k].pc = "rows"] ELSE Raise(k)
    /\ UNCHANGED <<task, stop_event, stoppers, stop_requested>>

\* ... the rows, one commit each, ...
TickNlpRow(k, ok) ==
    /\ tasks[k].pc = "rows"
    /\ NlpRow(ok)
    /\ tasks' = IF ok THEN tasks ELSE Raise(k)
    /\ UNCHANGED <<task, stop_event, stoppers, stop_requested>>

\* ... and the return
TickNlpReturn(k) ==
    /\ tasks[k].pc = "rows"
    /\ NlpReturn
    /\ tasks' = Advance(k)
    /\ UNCHANGED <<task, stop_event, stoppers, stop_requested>>

\* lines 32-35: wait_for returns because the event is set, or raises
\* TimeoutError; either way the loop condition is next
WaitOver(k, timeout) ==
    /\ tasks[k].pc = "waiting"
    /\ ~Busy
    /\ timeout \/ stop_event
    /\ tasks' = [tasks EXCEPT ![k].pc = "loop"]
    /\ UNCHANGED <<task, stop_event, stoppers, stop_requested, dbVars>>

\* bound: tasks the scheduler creates in one behaviour
MaxTasks == 2

\* a start() without the test
should_start_always(t, ts) == TRUE

\* line 39: start() does something
should_start(t, ts) == t = NoTask \/ ts[t].pc = "done"

\* start(), lines 38-42
Start ==
    /\ ~Busy
    /\ IF should_start(task, tasks)
       THEN /\ Len(tasks) < MaxTasks
            /\ stop_event' = FALSE
            /\ tasks' = Append(tasks, Runner("loop", 0, << >>, FALSE))
            /\ task' = Len(tasks) + 1
       ELSE UNCHANGED <<stop_event, tasks, task>>
    /\ stop_requested' = FALSE
    /\ UNCHANGED <<stoppers, dbVars>>

\* a stop() that sets the event and returns
stop_awaits_nothing(t, ts) == {}

\* lines 46-47: the task stop() suspends on, if any
stop_awaits(t, ts) == IF t # NoTask /\ ts[t].pc # "done" THEN {t} ELSE {}

\* stop(), lines 44-47, up to its await (it returns at once when there is
\* no task or the task is done)
Stop ==
    /\ ~Busy
    /\ stop_event' = TRUE
    /\ stoppers' = stoppers \cup stop_awaits(task, tasks)
    /\ stop_requested' = TRUE
    /\ UNCHANGED <<tasks, task, dbVars>>

\* stop() returns: the task it awaited is done
StopReturns(k) ==
    /\ k \in stoppers
    /\ ~Busy
    /\ tasks[k].pc = "done"
    /\ stoppers' = stoppers \ {k}
    /\ UNCHANGED <<tasks, task, stop_event, stop_requested, dbVars>>

----------------------------------------------------------------------------
(* features.py *)

EPS == <<1, 1000000>>

\* a division without the guard against small divisors
_safe_div_unguarded(a, b) ==
    IF a = None \/ b = None THEN Zero
    ELSE LET r == truediv(a, b)
         IN IF r.error # "" THEN Zero ELSE r.value

\* _safe_div, lines 22-28: whatever the division raises is answered by 0.0
_safe_div(a, b) ==
    IF a = None \/ b = None THEN Zero
    ELSE LET r == truediv(a, IF FLess(EPS, FAbs(b)) THEN b ELSE EPS)
         IN IF r.error # "" THEN Zero ELSE r.value

\* bound: numerators of the floats given as operands
MaxNum == 2

\* operands: whole numbers, and multiples of EPS and of EPS/2
Floats ==
    { Frac(n, d) : n \in (-MaxNum)..MaxNum, d \in {1, 1000000, 2000000} }

\* no _safe_div call
NoDiv == [pc |-> "none", a |-> None, b |-> None, out |-> None]

\* one call _safe_div(a, b), to its return
SafeDivCall ==
    /\ safe_div.pc = "called"
    /\ safe_div' = [safe_div EXCEPT !.out = _safe_div(safe_div.a, safe_div.b),
                                     !.pc = "returned"]
    /\ UNCHANGED <<dbVars, schedVars, featVars, mlVars, classify, label>>

\* the orders in which a query may return the rows `ids` of table `rows`
\* under ORDER BY key DESC: rows with equal keys come in any order
RECURSIVE OrdersDesc(_, _)
OrdersDesc(S, key) ==
    IF S = {} THEN { << >> }
    ELSE LET top == { i \in S : \A j \in S : key[i] >= key[j] }
         IN UNION { { <<i>> \o q : q \in OrdersDesc(S \ {i}, key) } : i \in top }

Take(q, n) == SubSeq(q, 1, IF Len(q) < n THEN Len(q) ELSE n)

\* line 36: the Fundamentals of the issuer, latest report_date first, at
\* most 5
query_fundamentals(funds, issuer_id) ==
    LET ids == { i \in 1..Len(funds) : funds[i].issuer_id = issuer_id }
    IN { [k \in 1..Len(Take(q, 5)) |-> funds[q[k]]] :
           q \in OrdersDesc(ids, [i \in 1..Len(funds) |-> funds[i].report_date]) }

\* line 68: limit(10)
EventsLimit == 10

\* line 68: the Events of the issuer, latest timestamp first, at most 10,
\* whatever their sentiment
query_events(evs, issuer_id) ==
    LET ids == { i \in 1..Len(evs) : evs[i].issuer_id = issuer_id }
    IN { [k \in 1..Len(Take(q, EventsLimit)) |-> evs[q[k]]] :
           q \in OrdersDesc(ids, [i \in 1..Len(evs) |-> evs[i].timestamp]) }

RECURSIVE FSum(_)
FSum(xs) == IF xs = << >> THEN Zero ELSE FAdd(Head(xs), FSum(Tail(xs)))

\* lines 69-70
avg_sentiment(e_rows) ==
    LET F[k \in 0..Len(e_rows)] ==
            IF k = 0 THEN << >>
            ELSE IF e_rows[k].sentiment # None
                 THEN Append(F[k - 1], e_rows[k].sentiment)
                 ELSE F[k - 1]
        sentiments == F[Len(e_rows)]
    IN IF sentiments # << >>
       THEN truediv(FSum(sentiments), <<Len(sentiments), 1>>).value
       ELSE Zero

\* lines 39-46
ZeroFeatures ==
    [debt_to_ebitda |-> Zero, ebitda_margin |-> Zero, revenue_growth |-> Zero,
     avg_sentiment |-> Zero, recent_revenue |-> Zero, recent_total_debt |-> Zero]

\* lines 48-80, for an issuer with a Fundamental
features_from(f_rows, e_rows) ==
    LET latest  == f_rows[1]
        debt    == OrZero(latest.total_debt)
        ebitda  == OrZero(latest.ebitda)
        revenue == OrZero(latest.revenue)
        prev_revenue == OrZero(f_rows[2].revenue)
    IN [debt_to_ebitda |-> _safe_div(debt, ebitda),
        ebitda_margin  |-> _safe_div(ebitda, revenue),
        revenue_growth |->
            IF Len(f_rows) > 1
            THEN _safe_div(FSub(revenue, prev_revenue),
                           IF FLess(EPS, FAbs(prev_revenue)) THEN prev_revenue ELSE EPS)
            ELSE Zero,
        avg_sentiment  |-> avg_sentiment(e_rows),
        recent_revenue |-> revenue,
        recent_total_debt |-> debt]

\* a feature engine that averages the sentiment also without Fundamentals
compute_features_sentiment_always(f_rows, e_rows) ==
    IF f_rows = << >>
    THEN [ZeroFeatures EXCEPT !.avg_sentiment = avg_sentiment(e_rows)]
    ELSE features_from(f_rows, e_rows)

\* compute_features_for_issuer, given what its two queries returned
compute_features_for_issuer(f_rows, e_rows) ==
    IF f_rows = << >> THEN ZeroFeatures ELSE features_from(f_rows, e_rows)

NoFeat == [called |-> FALSE, issuer_id |-> NoRow, out |-> ZeroFeatures]

\* one call compute_features_for_issuer(db, issuer_id)
ComputeFeatures(issuer_id) ==
    /\ \E f_rows \in query_fundamentals(fundamentals, issuer_id) :
         \E e_rows \in query_events(events, issuer_id) :
           feat' = [called |-> TRUE, issuer_id |-> issuer_id,
                    out |-> compute_features_for_issuer(f_rows, e_rows)]
    /\ UNCHANGED <<fundamentals, dbVars, schedVars, mlVars, pureVars>>

\* bound: rows POST /fundamentals may add
MaxFundamentals == 2

\* bound: rows POST /events may add
MaxEvents == 2

\* main.py POST /fundamentals (lines 62-67): the issuer must exist
PostFundamental(f) ==
    /\ Len(fundamentals) < MaxFundamentals
    /\ f.issuer_id \in 1..Len(Issuers)
    /\ fundamentals' = Append(fundamentals, f)
    /\ feat' = NoFeat
    /\ UNCHANGED <<dbVars, schedVars, mlVars, pureVars>>

\* main.py POST /events (lines 83-86, crud.create_event)
PostEvent(e) ==
    /\ Len(events) < MaxEvents
    /\ events' = Append(events, e)
    /\ feat' = NoFeat
    /\ UNCHANGED <<fundamentals, feed, news, rss, hist, price, nlp,
                   schedVars, mlVars, pureVars>>

----------------------------------------------------------------------------
(* ml.py: the artifacts *)

\* line 96
feature_cols ==
    <<"debt_to_ebitda", "ebitda_margin", "revenue_growth", "avg_sentiment",
      "recent_revenue", "recent_total_debt">>

\* a file at a path: absent, existing but not whole ("partial"), or whole
\* ("complete"); `run` is the training run whose bytes it holds, `writers`
\* the runs that have it open for writing, `torn` says that a run opened it
\* while another had it open
NoFile == [st |-> "absent", run |-> 0, writers |-> {}, torn |-> FALSE]

\* joblib.dump(obj, path) by run r, its open(path, "wb"): the file exists at
\* once, truncated, and is filled as the pickle is written
open_wb(f, r) ==
    [st |-> "partial", run |-> r, writers |-> f.writers \cup {r},
     torn |-> f.torn \/ f.writers # {}]

\* ... and its close: the file is whole when no other run writes to it and
\* none has written into it meanwhile (`whole`)
close_wb(f, r, whole) ==
    IF f.writers \ {r} # {}
    THEN [f EXCEPT !.writers = @ \ {r}]
    ELSE [st |-> IF whole THEN "complete" ELSE "partial", run |-> f.run,
          writers |-> {}, torn |-> FALSE]

\* load_model_and_info, lines 117-121: None when there is no file, else what
\* joblib.load makes of it, which raises on a file that is not whole
load_model_and_info(f) ==
    CASE f.st = "absent"   -> [error |-> "", found |-> FALSE, model |-> 0]
      [] f.st = "partial"  -> [error |-> "UnpicklingError", found |-> TRUE, model |-> 0]
      [] f.st = "complete" -> [error |-> "", found |-> TRUE, model |-> f.run]

\* load_explainer, lines 123-130: the explainer of the file, or None (0) when
\* there is no file or joblib.load raises
load_explainer(f) == IF f.st = "complete" THEN f.run ELSE 0

\* a trainer that also retrains when the explainer artifact is missing
needs_training_either(mf, ef) == mf.st = "absent" \/ ef.st = "absent"

\* line 133: `not os.path.exists(MODEL_PATH)`
needs_training(mf, ef) == mf.st = "absent"

----------------------------------------------------------------------------
(* ml.py: predict_and_explain, the score and the attributions *)

ScoreMin == <<300, 1>>

ScoreMax == <<850, 1>>

\* Python's min(a, b) and max(a, b): b when it is smaller (greater), else a
fmin(a, b) == IF FLess(b, a) THEN b ELSE a

fmax(a, b) == IF FLess(a, b) THEN b ELSE a

\* a score that is only capped from above
clamp_score_upper(raw_pred) == fmin(ScoreMax, raw_pred)

\* line 162
clamp_score(raw_pred) == fmax(ScoreMin, fmin(ScoreMax, raw_pred))

\* lines 178-184: the loop over feature_cols from feature i on; sv_arr[0, i]
\* raises IndexError when the explainer gave fewer values than features
RECURSIVE shap_entries(_, _, _, _)
shap_entries(acc, X, sv, i) ==
    IF i > Len(feature_cols) THEN [error |-> "", list |-> acc]
    ELSE IF i > Len(sv) THEN [error |-> "IndexError", list |-> acc]
    ELSE shap_entries(
           Append(acc, [feature |-> feature_cols[i], value |-> X[i],
                        shap_value |-> sv[i]]),
           X, sv, i + 1)

\* an except clause that keeps what the loop had appended
on_shap_error_keep(shap_list) == shap_list

\* lines 185-188: the except clause
on_shap_error(shap_list) == << >>

\* lines 168-188: `explainer` is what load_explainer returned (0 for None),
\* `built` says whether shap.TreeExplainer(model) succeeds when it is needed,
\* `sv` is what explainer.shap_values(X) returns, None when it raises
shap_try(explainer, built, sv, X) ==
    IF explainer = 0 /\ ~built
    THEN [error |-> "TreeExplainerError", list |-> on_shap_error(<< >>)]
    ELSE IF sv = None
    THEN [error |-> "ShapValuesError", list |-> on_shap_error(<< >>)]
    ELSE LET r == shap_entries(<< >>, X, sv, 1)
         IN IF r.error # ""
            THEN [error |-> r.error, list |-> on_shap_error(r.list)]
            ELSE [error |-> "", list |-> r.list]

\* the sort key of an attribution: abs(shap_value), or shap_value itself
shap_key(x, by) == IF by = "abs" THEN FAbs(x.shap_value) ELSE x.shap_value

\* the place of x in a list kept in descending order of key: behind every
\* element whose key is not smaller
RECURSIVE insert_desc(_, _, _)
insert_desc(sorted, x, by) ==
    IF sorted = << >> THEN <<x>>
    ELSE IF FLess(shap_key(Head(sorted), by), shap_key(x, by))
    THEN <<x>> \o sorted
    ELSE <<Head(sorted)>> \o insert_desc(Tail(sorted), x, by)

\* a stable sort in descending order of key
RECURSIVE sorted_desc(_, _)
sorted_desc(list, by) ==
    IF list = << >> THEN << >>
    ELSE insert_desc(sorted_desc(SubSeq(list, 1, Len(list) - 1), by),
                     list[Len(list)], by)

\* a ranking by the signed attribution
sorted_by_value(shap_list) == sorted_desc(shap_list, "value")

\* line 191: sorted(shap_list, key=abs(shap_value), reverse=True), a stable
\* sort
sorted_by_abs(shap_list) == sorted_desc(shap_list, "abs")

\* the feature values in the order of feature_cols (line 158)
FeatureRow(feats) ==
    <<feats.debt_to_ebitda, feats.ebitda_margin, feats.revenue_growth,
      feats.avg_sentiment, feats.recent_revenue, feats.recent_total_debt>>

----------------------------------------------------------------------------
(* ml.py: the synthetic label *)

\* line 39: 100.0 * min(debt_to_ebitda, 10.0) / 10.0
debt_penalty(debt_to_ebitda) ==
    truediv(FMul(<<100, 1>>, fmin(debt_to_ebitda, <<10, 1>>)), <<10, 1>>).value

\* lines 40-42: weight * max(min(x, 1.0), -1.0)
bonus(weight, x) == FMul(weight, fmax(fmin(x, <<1, 1>>), <<-1, 1>>))

\* _synthesize_label_from_row (lines 31-47), with the draw of
\* np.random.normal(0, 25) at line 43 as the argument noise
_synthesize_label_from_row(df_row, noise) ==
    LET base == <<600, 1>>
        growth_bonus    == bonus(<<150, 1>>, df_row.revenue_growth)
        margin_bonus    == bonus(<<100, 1>>, df_row.ebitda_margin)
        sentiment_bonus == bonus(<<100, 1>>, df_row.avg_sentiment)
        score == FAdd(FAdd(FAdd(FAdd(FSub(base, debt_penalty(df_row.debt_to_ebitda)),
                                     growth_bonus),
                                margin_bonus),
                           sentiment_bonus),
                      noise)
    IN fmax(ScoreMin, fmin(ScoreMax, score))

\* no _synthesize_label_from_row call
NoLabel == [pc |-> "none", df_row |-> None, noise |-> Zero, out |-> None]

\* one call _synthesize_label_from_row(df_row), to its return
SynthesizeLabel ==
    /\ label.pc = "called"
    /\ label' = [label EXCEPT !.out = _synthesize_label_from_row(label.df_row,
                                                                 label.noise),
                               !.pc = "returned"]
    /\ UNCHANGED <<dbVars, schedVars, featVars, mlVars, safe_div, classify>>

----------------------------------------------------------------------------
(* ml.py: the calls *)

\* bound: predict_and_explain and train_model_if_needed calls of a behaviour
MaxCalls == 2

\* a call: where it stands (pc), and what it has seen and computed so far.
\* `missing` says that it found no model artifact, `trained` that it has
\* entered train_and_save_model; a training run is named by the position of
\* its call; `error` is the exception that ended the call (pc "raised") or
\* that the attribution step logged (pc "returned")
Call(fn, pc, issuer_id) ==
    [fn |-> fn, pc |-> pc, issuer_id |-> issuer_id,
     missing |-> FALSE, trained |-> FALSE, model |-> 0, explainer |-> 0,
     error |-> "", raw_score |-> None, score |-> None,
     features |-> ZeroFeatures, shap |-> << >>]

Training(c) == c.pc \in {"fit", "dumping", "explainer", "explainer_dumping"}

Over(c) == c.pc \in {"returned", "raised"}

\* GET /score/{issuer_id} (main.py lines 93-98) reaches predict_and_explain
\* for an issuer that exists
ScoreBegin(issuer_id) ==
    /\ Len(calls) < MaxCalls
    /\ issuer_id \in 1..Len(Issuers)
    /\ calls' = Append(calls, Call("predict_and_explain", "load", issuer_id))
    /\ UNCHANGED <<model_file, explainer_file, dbVars, schedVars, featVars, pureVars>>

\* a train_model_if_needed call begins (main.py line 36)
TrainIfNeededBegin ==
    /\ Len(calls) < MaxCalls
    /\ calls' = Append(calls, Call("train_model_if_needed", "exists", NoRow))
    /\ UNCHANGED <<model_file, explainer_file, dbVars, schedVars, featVars, pureVars>>

\* train_model_if_needed, lines 132-137
TrainIfNeeded(k) ==
    /\ calls[k].pc = "exists"
    /\ calls' = IF needs_training(model_file, explainer_file)
                THEN [calls EXCEPT ![k].pc = "fit", ![k].missing = TRUE,
                                   ![k].trained = TRUE]
                ELSE [calls EXCEPT ![k].pc = "returned"]
    /\ UNCHANGED <<model_file, explainer_file, dbVars, schedVars, featVars, pureVars>>

\* predict_and_explain, lines 149-153: load_model_and_info, first ("load")
\* and after the training it made ("reload"); model_obj["model"] on None is
\* a TypeError
LoadModel(k) ==
    /\ calls[k].pc \in {"load", "reload"}
    /\ LET r == load_model_and_info(model_file)
       IN calls' =
            IF r.error # ""
            THEN [calls EXCEPT ![k].pc = "raised", ![k].error = r.error]
            ELSE IF r.found
            THEN [calls EXCEPT ![k].pc = "predict", ![k].model = r.model]
            ELSE IF calls[k].pc = "load"
            THEN [calls EXCEPT ![k].pc = "fit", ![k].missing = TRUE,
                               ![k].trained = TRUE]
            ELSE [calls EXCEPT ![k].pc = "raised", ![k].error = "TypeError"]
    /\ UNCHANGED <<model_file, explainer_file, dbVars, schedVars, featVars, pureVars>>

\* train_and_save_model, lines 93-105: the data is built and the model
\* fitted, then joblib.dump opens MODEL_PATH
ModelDumpOpen(k) ==
    /\ calls[k].pc = "fit"
    /\ model_file' = open_wb(model_file, k)
    /\ calls' = [calls EXCEPT ![k].pc = "dumping"]
    /\ UNCHANGED <<explainer_file, dbVars, schedVars, featVars, pureVars>>

\* line 105: joblib.dump returns
ModelDumpClose(k, whole) ==
    /\ calls[k].pc = "dumping"
    /\ whole \/ model_file.torn
    /\ model_file' = close_wb(model_file, k, whole)
    /\ calls' = [calls EXCEPT ![k].pc = "explainer"]
    /\ UNCHANGED <<explainer_file, dbVars, schedVars, featVars, pureVars>>

\* where a call goes on when train_and_save_model returns
after_training(c) == IF c.fn = "predict_and_explain" THEN "reload" ELSE "returned"

\* lines 109-115: shap.TreeExplainer(model) is built and joblib.dump opens
\* EXPLAINER_PATH, or the build raises, which is logged
ExplainerBuild(k, ok) ==
    /\ calls[k].pc = "explainer"
    /\ IF ok
       THEN /\ explainer_file' = open_wb(explainer_file, k)
            /\ calls' = [calls EXCEPT ![k].pc = "explainer_dumping"]
       ELSE /\ explainer_file' = explainer_file
            /\ calls' = [calls EXCEPT ![k].pc = after_training(calls[k])]
    /\ UNCHANGED <<model_file, dbVars, schedVars, featVars, pureVars>>

\* line 112: joblib.dump returns
ExplainerDumpClose(k, whole) ==
    /\ calls[k].pc = "explainer_dumping"
    /\ whole \/ explainer_file.torn
    /\ explainer_file' = close_wb(explainer_file, k, whole)
    /\ calls' = [calls EXCEPT ![k].pc = after_training(calls[k])]
    /\ UNCHANGED <<model_file, dbVars, schedVars, featVars, pureVars>>

\* lines 154-165: the features of the issuer, the prediction of the model
\* (raw_pred), the score, and load_explainer
Predict(k, raw_pred) ==
    /\ calls[k].pc = "predict"
    /\ \E f_rows \in query_fundamentals(fundamentals, calls[k].issuer_id) :
         \E e_rows \in query_events(events, calls[k].issuer_id) :
           calls' = [calls EXCEPT
                       ![k].pc = "shap",
                       ![k].features = compute_features_for_issuer(f_rows, e_rows),
                       ![k].raw_score = raw_pred,
                       ![k].score = clamp_score(raw_pred),
                       ![k].explainer = load_explainer(explainer_file)]
    /\ UNCHANGED <<model_file, explainer_file, dbVars, schedVars, featVars, pureVars>>

\* lines 166-198: the attributions, their ranking, and the return
Shap(k, built, sv) ==
    /\ calls[k].pc = "shap"
    /\ LET r == shap_try(calls[k].explainer, built, sv,
                         FeatureRow(calls[k].features))
       IN calls' = [calls EXCEPT ![k].pc = "returned",
                                 ![k].error = r.error,
                                 ![k].shap = sorted_by_abs(r.list)]
    /\ UNCHANGED <<model_file, explainer_file, dbVars, schedVars, featVars, pureVars>>

----------------------------------------------------------------------------
(* nlp.py: classify_event calls *)

\* no classify_event call
NoClassify == [pc |-> "none", text |-> None, out |-> ""]

\* one call classify_event(text), to its return
ClassifyCall ==
    /\ classify.pc = "called"
    /\ classify' = [classify EXCEPT !.out = classify_event(classify.text),
                                     !.pc = "returned"]
    /\ UNCHANGED <<dbVars, schedVars, featVars, mlVars, safe_div, label>>

----------------------------------------------------------------------------
(* Specifications *)

NoFeed == [i \in 1..Len(Urls) |-> [raises |-> FALSE, entries |-> << >>]]

NoHist == [i \in Tracked |-> [raises |-> FALSE, rows |-> << >>]]

\* the scheduler as constructed (lines 13-16), before start()
InitSched ==
    /\ tasks = << >>
    /\ task = NoTask
    /\ stop_event = FALSE
    /\ stoppers = {}
    /\ stop_requested = FALSE

\* the tables as Base.metadata.create_all leaves them
InitDb ==
    /\ news = << >>
    /\ events = << >>
    /\ rss = NoRun
    /\ price = NoPriceRun
    /\ nlp = NoNlpRun

\* no Fundamentals, no feature call
InitFeat ==
    /\ fundamentals = << >>
    /\ feat = NoFeat

\* no artifact on disk, no call
InitMl ==
    /\ model_file = NoFile
    /\ explainer_file = NoFile
    /\ calls = << >>

InitPure ==
    /\ safe_div = NoDiv
    /\ classify = NoClassify
    /\ label = NoLabel

PostLinks == {LinkA, LinkB}

NextRss ==
    \/ IngestRss /\ UNCHANGED <<schedVars, scoreVars>>
    \/ \E l \in PostLinks :
         PostNews(l, <<"t">>) /\ UNCHANGED <<schedVars, scoreVars>>

\* feed ingestion with POST /news beside it; the content of the sources is
\* fixed over a behaviour, so every call after the first re-ingests the same
\* source content
InitRss ==
    /\ InitDb /\ InitSched /\ InitFeat /\ InitMl /\ InitPure
    /\ feed \in Feeds
    /\ hist = NoHist

SpecRss == InitRss /\ [][NextRss]_vars

NextPrice ==
    \/ IngestYahooPrices /\ UNCHANGED <<schedVars, scoreVars>>
    \/ \E i \in Tracked : \E s \in Samples :
         ProviderAppend(i, s) /\ UNCHANGED <<schedVars, scoreVars>>
    \/ \E i \in Tracked : ProviderToggle(i) /\ UNCHANGED <<schedVars, scoreVars>>

\* price ingestion against a provider whose data changes between calls
InitPrice ==
    /\ InitDb /\ InitSched /\ InitFeat /\ InitMl /\ InitPure
    /\ feed = NoFeed
    /\ hist = NoHist

SpecPrice == InitPrice /\ [][NextPrice]_vars

NlpTitles == {<<"t">>, <<"A">>, <<"B", "A">>}

NlpLinks == {LinkA, LinkB, LinkPadA}

NextNlp ==
    \/ \E ok \in BOOLEAN : NlpQuery(ok) /\ UNCHANGED <<schedVars, scoreVars>>
    \/ \E ok \in BOOLEAN : NlpRow(ok) /\ UNCHANGED <<schedVars, scoreVars>>
    \/ NlpReturn /\ UNCHANGED <<schedVars, scoreVars>>
    \/ \E l \in NlpLinks : \E t \in NlpTitles :
         PostNews(l, t) /\ UNCHANGED <<schedVars, scoreVars>>

\* event synthesis with POST /news beside it
SpecNlp == InitPrice /\ [][NextNlp]_vars

\* what one runner does
RunnerNext(k) ==
    \/ RunnerLoop(k)
    \/ TickRss(k)
    \/ \E ok \in BOOLEAN : TickPrices(k, ok)
    \/ \E ok \in BOOLEAN : TickNlpQuery(k, ok)
    \/ \E ok \in BOOLEAN : TickNlpRow(k, ok)
    \/ TickNlpReturn(k)
    \/ \E timeout \in BOOLEAN : WaitOver(k, timeout)

NextSched ==
    \/ Start /\ UNCHANGED scoreVars
    \/ Stop /\ UNCHANGED scoreVars
    \/ \E k \in 1..Len(tasks) : StopReturns(k) /\ UNCHANGED scoreVars
    \/ \E k \in 1..Len(tasks) : RunnerNext(k) /\ UNCHANGED scoreVars
    \/ PostNews(LinkA, <<"A">>) /\ UNCHANGED <<schedVars, scoreVars>>

\* a source that cannot be parsed and a source with one complete entry
SchedFeed ==
    <<[raises |-> TRUE, entries |-> << >>],
      [raises |-> FALSE,
       entries |-> <<[link |-> LinkB, title |-> <<"u">>, summary |-> <<"s">>]>>]>>

\* one sample for the first issuer, a failing provider for the second
SchedHist ==
    [i \in Tracked |->
       IF i = 1
       THEN [raises |-> FALSE,
             rows |-> <<[local |-> 24, aware |-> FALSE, utcoffset |-> 0,
                         nanVolume |-> FALSE]>>]
       ELSE [raises |-> TRUE, rows |-> << >>]]

InitSchedSpec ==
    /\ InitDb /\ InitSched /\ InitFeat /\ InitMl /\ InitPure
    /\ feed = SchedFeed
    /\ hist = SchedHist

\* the scheduler: start() and stop() calls in any order, the runners they
\* make, and POST /news beside them
SpecSched == InitSchedSpec /\ [][NextSched]_vars

\* the event loop runs every task that is ready, and a wait_for ends
FairSched ==
    /\ InitSchedSpec
    /\ [][NextSched]_vars
    /\ \A k \in 1..MaxTasks :
         WF_vars(k <= Len(tasks) /\ RunnerNext(k) /\ UNCHANGED scoreVars)

\* what a training run does
TrainerNext(k) ==
    \/ ModelDumpOpen(k)
    \/ \E whole \in BOOLEAN : ModelDumpClose(k, whole)
    \/ \E ok \in BOOLEAN : ExplainerBuild(k, ok)
    \/ \E whole \in BOOLEAN : ExplainerDumpClose(k, whole)

\* what a predict_and_explain call does outside training, for the
\* predictions and attribution values the libraries may give
ScorerNext(k, raws, svs) ==
    \/ LoadModel(k)
    \/ \E raw_pred \in raws : Predict(k, raw_pred)
    \/ \E built \in BOOLEAN : \E sv \in svs : Shap(k, built, sv)

\* one Fundamental of the first issuer
MlFundamentals ==
    << [issuer_id |-> 1, report_date |-> 1,
        revenue |-> <<2, 1>>, ebitda |-> <<1, 1>>, total_debt |-> <<2, 1>>] >>

InitMlSpec ==
    /\ InitDb /\ InitSched /\ InitMl /\ InitPure
    /\ feed = NoFeed
    /\ hist = NoHist
    /\ fundamentals = MlFundamentals
    /\ feat = NoFeat

\* whole numbers as floats
Ints(t) == [i \in 1..Len(t) |-> <<t[i], 1>>]

MlRaws == { <<600, 1>> }

MlShaps == { None, Ints(<<1, -2, 0, 2, -1, 1>>) }

NextMl ==
    \/ ScoreBegin(1)
    \/ TrainIfNeededBegin
    \/ \E k \in 1..Len(calls) : TrainIfNeeded(k)
    \/ \E k \in 1..Len(calls) : TrainerNext(k)
    \/ \E k \in 1..Len(calls) : ScorerNext(k, MlRaws, MlShaps)

\* scoring requests and train_model_if_needed calls that run concurrently
\* (GET /score is served from a thread pool), from a disk without artifacts
SpecMl == InitMlSpec /\ [][NextMl]_vars

\* raw predictions below, at, inside, and above the score range
RawPreds == { <<299, 1>>, <<300, 1>>, <<1201, 2>>, <<850, 1>>, <<851, 1>> }

\* what explainer.shap_values gives: it raises (None), it gives fewer values
\* than features, or it gives one value per feature, with values of equal
\* magnitude and of either sign
ShapValues ==
    { None,
      Ints(<<1, -2>>),
      Ints(<<0, 0, 0, 0, 0, 0>>),
      Ints(<<1, -2, 0, 2, -1, 1>>),
      Ints(<<-3, 1, 2, -1, 0, 3>>) }

NextScore ==
    \/ (\A k \in 1..Len(calls) : Over(calls[k])) /\ ScoreBegin(1)
    \/ \E k \in 1..Len(calls) : TrainerNext(k)
    \/ \E k \in 1..Len(calls) : ScorerNext(k, RawPreds, ShapValues)

\* scoring requests one after the other, from a disk without artifacts, over
\* every prediction and every outcome of the attribution step
SpecScore == InitMlSpec /\ [][NextScore]_vars

\* the operands of a _safe_div call: present or absent
Operands == Floats \cup {None}

InitDiv ==
    /\ InitDb /\ InitSched /\ InitFeat /\ InitMl
    /\ feed = NoFeed
    /\ hist = NoHist
    /\ classify = NoClassify
    /\ label = NoLabel
    /\ safe_div \in { [pc |-> "called", a |-> a, b |-> b, out |-> None] :
                         a \in Operands, b \in Operands }

NextDiv == SafeDivCall

\* _safe_div on every pair of operands
SpecDiv == InitDiv /\ [][NextDiv]_vars

\* feature rows as build_training_dataframe hands them over: the rows of
\* compute_features_for_issuer, whose debt_to_ebitda is negative when ebitda
\* is, with ratios inside and outside the ranges the label clamps to
LabelRows ==
    { [debt_to_ebitda |-> d, revenue_growth |-> g, ebitda_margin |-> m,
       avg_sentiment |-> a] :
        d \in { <<-5, 1>>, Zero, <<5, 1>>, <<20, 1>> },
        g \in { <<-2, 1>>, Zero, <<1, 2>> },
        m \in { Zero, <<2, 1>> },
        a \in { <<-1, 2>>, Zero } }

\* draws of np.random.normal(0, 25), near and far
Noises == { <<-400, 1>>, Zero, <<25, 1>>, <<400, 1>> }

InitLabel ==
    /\ InitDb /\ InitSched /\ InitFeat /\ InitMl
    /\ feed = NoFeed
    /\ hist = NoHist
    /\ safe_div = NoDiv
    /\ classify = NoClassify
    /\ label \in { [pc |-> "called", df_row |-> r, noise |-> n, out |-> None] :
                      r \in LabelRows, n \in Noises }

NextLabel == SynthesizeLabel

\* _synthesize_label_from_row on every row and draw
SpecLabel == InitLabel /\ [][NextLabel]_vars

\* words of several categories, in upper and lower case, a word that holds a
\* keyword inside ("issued"), and a word without keyword
Words ==
    { <<"Q", "2">>, <<"C", "E", "O">>, <<"M", "e", "r", "g", "e", "r">>,
      <<"u", "p", "g", "r", "a", "d", "e", "d">>,
      <<"d", "o", "w", "n", "g", "r", "a", "d", "e">>,
      <<"i", "s", "s", "u", "e", "d">>,
      <<"b", "o", "a", "r", "d">>,
      <<"s", "a", "y", "s">> }

\* bound: words of a text
MaxWords == 2

RECURSIVE Join(_)
Join(ws) ==
    IF ws = << >> THEN << >>
    ELSE IF Len(ws) = 1 THEN ws[1]
    ELSE ws[1] \o <<WS>> \o Join(Tail(ws))

Texts == { Join(ws) : ws \in SeqsUpTo(Words, MaxWords) } \cup {None}

InitClassify ==
    /\ InitDb /\ InitSched /\ InitFeat /\ InitMl
    /\ feed = NoFeed
    /\ hist = NoHist
    /\ safe_div = NoDiv
    /\ label = NoLabel
    /\ classify \in { [pc |-> "called", text |-> t, out |-> ""] : t \in Texts }

NextClassify == ClassifyCall

\* classify_event on every text
SpecClassify == InitClassify /\ [][NextClassify]_vars

\* the Fundamentals POST /fundamentals is given: of the first issuer, on
\* two report dates, with figures that are whole, zero or absent
FundamentalRows ==
    { [issuer_id |-> 1, report_date |-> d,
       revenue |-> t[1], ebitda |-> t[2], total_debt |-> t[3]] :
        d \in {1, 2},
        t \in { <<<<2, 1>>, <<1, 1>>, <<2, 1>>>>,
                <<<<1, 1>>, Zero, <<1, 1>>>>,
                <<None, None, None>> } }

\* the Events POST /events is given: of the first two issuers, an early and
\* a late one with sentiment and a late one without
EventRows ==
    { [issuer_id |-> i, news_id |-> NoRow, event_type |-> "other",
       timestamp |-> x[1], sentiment |-> x[2]] :
        i \in {1, 2},
        x \in { <<0, <<1, 2>>>>, <<24, <<-1, 1>>>>, <<24, None>> } }

FeatIssuers == {1, 2}

NextFeat ==
    \/ \E f \in FundamentalRows : PostFundamental(f)
    \/ \E e \in EventRows : PostEvent(e)
    \/ \E i \in FeatIssuers : ComputeFeatures(i)

\* the feature engine over tables that POST /fundamentals and POST /events
\* fill
SpecFeat == InitPrice /\ [][NextFeat]_vars

\* a provider series of the first issuer with one sample on each of as many
\* days as the Events query keeps rows, all later than the Events POST
\* /events is given
DailyHist ==
    [i \in Tracked |->
       [raises |-> FALSE,
        rows |-> IF i = 1
                 THEN [k \in 1..EventsLimit |->
                         [local |-> HoursPerDay * (k + 1), aware |-> FALSE,
                          utcoffset |-> 0, nanVolume |-> FALSE]]
                 ELSE << >>]]

InitDaily ==
    /\ InitDb /\ InitSched /\ InitMl /\ InitPure
    /\ feed = NoFeed
    /\ hist = DailyHist
    /\ fundamentals = MlFundamentals
    /\ feat = NoFeat

NextDaily ==
    \/ /\ IngestYahooPrices
       /\ feat' = NoFeat
       /\ UNCHANGED <<fundamentals, schedVars, mlVars, pureVars>>
    \/ \E e \in EventRows : PostEvent(e)
    \/ \E i \in FeatIssuers : ComputeFeatures(i)

\* the feature engine beside the price ingestion of a daily series
SpecDaily == InitDaily /\ [][NextDaily]_vars

----------------------------------------------------------------------------
(* Feed ingestion: claims *)

Links(rows) == { rows[i].link : i \in 1..Len(rows) }

RowsWith(rows, link) == { i \in 1..Len(rows) : rows[i].link = link }

\* an entry with title, link and summary, its link free of surrounding blanks
Complete(e) ==
    /\ ~Falsy(e.link) /\ ~Falsy(e.title) /\ ~Falsy(e.summary)
    /\ Strip(e.link) = e.link

CleanSource(src) ==
    /\ ~src.raises
    /\ \A k \in 1..Len(src.entries) : Complete(src.entries[k])

Offers(src, link) == \E k \in 1..Len(src.entries) : src.entries[k].link = link

\* C1: a call of ingest_rss that follows an earlier call with the same source
\* content (whatever was posted in between) does not increase the number of
\* stored News rows.
C1_ReingestNeverGrows ==
    [][(rss' # rss /\ rss.ran) => Len(news') <= Len(news)]_vars

\* a second call has run, on a store that held rows, over a feed with an
\* entry it skipped as a duplicate and an entry it tried to insert
C1_Witness ==
    /\ rss.again
    /\ Len(rss.before) > 0
    /\ \E i \in 1..Len(rss.sources) :
         \E k \in 1..Len(rss.sources[i].out) : rss.sources[i].out[k] = "duplicate"
    /\ \E i \in 1..Len(rss.sources) : rss.sources[i].logged = "AttributeError"

\* C2: when two sources of complete entries both offer a link that was not
\* stored, exactly one News row with that link is stored when ingest_rss
\* returns.
C2_TwoSourcesOneRow ==
    rss.ran =>
      \A L \in {LinkA, LinkB} :
        ( /\ \A i \in 1..Len(Urls) : CleanSource(feed[i]) /\ Offers(feed[i], L)
          /\ RowsWith(rss.before, L) = {} )
        => Cardinality(RowsWith(rss.after, L)) = 1

\* the entry k of source i was reached by the last call
Reached(i, k) == k <= Len(rss.sources[i].out)

\* C5: an entry with a title whose link, as it would be stored, is the link
\* of a News row already stored is skipped without an exception: nothing is
\* logged for it, the stored row and the table are as before, and the next
\* entry of the source is reached.
C5_DuplicateIsNoOp ==
    rss.ran =>
      \A i \in 1..Len(Urls) : \A k \in 1..Len(feed[i].entries) :
        LET e == feed[i].entries[k]
        IN ( /\ Reached(i, k)
             /\ ~Falsy(e.link) /\ ~Falsy(e.title)
             /\ Strip(e.link) \in Links(rss.before) )
           => /\ rss.sources[i].out[k] = "duplicate"
              /\ k < Len(feed[i].entries) => Reached(i, k + 1)
              /\ \A r \in 1..Len(rss.before) : rss.after[r] = rss.before[r]
              /\ Cardinality(RowsWith(rss.after, Strip(e.link))) = 1

\* the source i failed in the last call: its parse raised or an exception
\* was logged for it
Failed(i) == rss.sources[i].logged # ""

\* C6: after a source that failed, every later source is still processed and
\* its complete entries with a link not stored before are stored when
\* ingest_rss returns.
C6_FailedSourceDoesNotAbort ==
    rss.ran =>
      \A i \in 1..Len(Urls) : \A j \in (i + 1)..Len(Urls) :
        (Failed(i) /\ CleanSource(feed[j]))
        => /\ Len(rss.sources) = Len(Urls)
           /\ \A k \in 1..Len(feed[j].entries) :
                feed[j].entries[k].link \in Links(rss.after)

----------------------------------------------------------------------------
(* Price ingestion: claims *)

PriceEvents == { e \in 1..Len(events) : events[e].event_type = "price" }

\* C3: no two price Events of one issuer fall on one utc calendar day, and a
\* call of ingest_yahoo_prices that sees the provider data of the call
\* before it inserts no Event.
C3_OnePricePerIssuerDay ==
    /\ [](\A e1 \in PriceEvents : \A e2 \in PriceEvents :
            ( /\ events[e1].issuer_id = events[e2].issuer_id
              /\ DateOf(events[e1].timestamp) = DateOf(events[e2].timestamp) )
            => e1 = e2)
    /\ [][(price.same /\ price'.same)
            => (events' = events /\ price'.inserted = 0)]_vars

\* a call has seen the data of the call before it and inserted nothing, with
\* a sample in a series that falls on the day of a stored Event of the
\* issuer at another instant
C3_Witness ==
    /\ price.again /\ price.same /\ price.inserted = 0
    /\ \E i \in Tracked : \E k \in 1..Len(hist[i].rows) : \E e \in PriceEvents :
         LET ts_utc == pd_timestamp_to_datetime(hist[i].rows[k])
         IN /\ ~hist[i].raises
            /\ events[e].issuer_id = i
            /\ DateOf(events[e].timestamp) = DateOf(ts_utc)
            /\ events[e].timestamp # ts_utc

----------------------------------------------------------------------------
(* Event synthesis: claims *)

EventsOf(n) == { e \in 1..Len(events) : events[e].news_id = n }

\* C4: every News row has at most one Event derived from it, is processed
\* exactly when it has one, and once processed stays processed, also across
\* runs that an exception ended.
C4_ProcessedIffOneEvent ==
    /\ [](\A n \in 1..Len(news) :
            /\ Cardinality(EventsOf(n)) <= 1
            /\ news[n].processed <=> Cardinality(EventsOf(n)) = 1)
    /\ [][/\ Len(news') >= Len(news)
          /\ \A n \in 1..Len(news) : news[n].processed => news'[n].processed]_vars

\* a run was ended by an exception after it had committed a row that
\* resolves to no issuer, and left a row unprocessed
C4_Witness ==
    /\ nlp.result = "raised"
    /\ \E n \in 1..Len(news) : \E e \in EventsOf(n) :
         news[n].processed /\ events[e].issuer_id = NoRow
    /\ \E n \in 1..Len(news) : ~news[n].processed

----------------------------------------------------------------------------
(* Scheduler: claims *)

Live == { k \in 1..Len(tasks) : tasks[k].pc # "done" }

TickFailed(k) ==
    k <= Len(tasks) /\ tasks[k].pc = "waiting" /\ tasks[k].failed

TickStarted(k) ==
    k <= Len(tasks) /\ tasks[k].pc = "tick" /\ tasks[k].at = 1

\* C7: a runner ends only when the stop event is set, and after a tick that
\* raised it starts another tick unless stop is signalled.
C7_FailedTickDoesNotStop ==
    /\ [][\A k \in 1..Len(tasks) :
            (tasks[k].pc # "done" /\ tasks'[k].pc = "done") => stop_event]_vars
    /\ \A k \in 1..MaxTasks :
         (TickFailed(k) /\ ~stop_event) ~> (stop_event \/ TickStarted(k))

\* a tick has raised and the runner is in its next tick
C7_Witness ==
    \E k \in 1..Len(tasks) :
        /\ InTick(tasks[k])
        /\ nlp.result = "raised"
        /\ ~stop_event

\* C8: stop() returns only when the runner it awaits is done; no step ends
\* a runner in the middle of a tick; and while stop() was called, has
\* returned, and start() was not called since, no runner is left.
C8_StopWaitsForRunner ==
    /\ [][\A k \in stoppers : k \notin stoppers' => tasks[k].pc = "done"]_vars
    /\ [][\A k \in 1..Len(tasks) :
            InTick(tasks[k]) => tasks'[k].pc # "done"]_vars
    /\ []((stop_requested /\ stoppers = {}) => Live = {})

\* a stop() that awaited a runner which had completed a tick has returned
C8_Witness ==
    /\ stop_requested /\ stoppers = {}
    /\ \E k \in 1..Len(tasks) :
         /\ tasks[k].pc = "done"
         /\ Len(tasks[k].ran) = Len(ingest_all)
         /\ ~tasks[k].failed

\* C9: at most one runner is not done, and a start() while one is running
\* makes no task.
C9_AtMostOneRunner ==
    /\ [](Cardinality(Live) <= 1)
    /\ [][Live # {} => Len(tasks') = Len(tasks)]_vars

\* start() was called while a runner was waiting, and stop() after it
C9_Witness ==
    /\ Len(tasks) = 2
    /\ Cardinality(Live) = 1
    /\ tasks[1].pc = "done"

\* C10: in a tick, ingest_yahoo_prices runs after ingest_rss has returned and
\* run_nlp_on_news after both have, and no two ticks are in progress at once.
C10_StagesInOrder ==
    /\ Cardinality({ k \in 1..Len(tasks) : InTick(tasks[k]) }) <= 1
    /\ \A k \in 1..Len(tasks) :
         InTick(tasks[k]) =>
           /\ Stage(k) = "ingest_rss" => tasks[k].ran = << >>
           /\ Stage(k) = "ingest_yahoo_prices" => tasks[k].ran = <<"ingest_rss">>
           /\ Stage(k) = "run_nlp_on_news" =>
                tasks[k].ran = <<"ingest_rss", "ingest_yahoo_prices">>

\* event synthesis is at work on a row in a tick whose feed ingestion has
\* returned
C10_Witness ==
    \E k \in 1..Len(tasks) :
        /\ tasks[k].pc = "rows"
        /\ nlp.queue # << >>
        /\ tasks[k].ran = <<"ingest_rss", "ingest_yahoo_prices">>

----------------------------------------------------------------------------
(* Feature engine and classifier: claims *)

----------------------------------------------------------------------------
(* Trainer and scorer: claims *)

\* C11: no load_model_and_info call finds the model file existing but not
\* whole.
C11_ReaderNeverSeesPartial ==
    \A k \in 1..Len(calls) : calls[k].error # "UnpicklingError"

\* C12: at most one execution of train_and_save_model is in progress, and at
\* most one has the model file open for writing.
C12_OneTrainerAtATime ==
    /\ Cardinality({ k \in 1..Len(calls) : Training(calls[k]) }) <= 1
    /\ Cardinality(model_file.writers) <= 1

\* C13: a predict_and_explain call that found no model artifact does not
\* raise; when it has returned it has trained a model and computed a score,
\* and the model artifact exists.
C13_MissingModelTrainsAndScores ==
    \A k \in 1..Len(calls) :
        (calls[k].fn = "predict_and_explain" /\ calls[k].missing)
        => /\ calls[k].pc # "raised"
           /\ calls[k].pc = "returned"
                => /\ calls[k].trained
                   /\ calls[k].score # None
                   /\ model_file.st # "absent"

\* C14: a train_model_if_needed call that finds the model artifact returns
\* without training and leaves both artifacts as they are, whether or not
\* the explainer artifact exists.
C14_TrainIfNeededNoOp ==
    [][\A k \in 1..Len(calls) :
         ( /\ calls[k].pc = "exists"
           /\ calls'[k].pc # "exists"
           /\ model_file.st # "absent" )
         => /\ calls'[k].pc = "returned"
            /\ ~calls'[k].trained
            /\ model_file' = model_file
            /\ explainer_file' = explainer_file]_vars

\* a train_model_if_needed call has returned without training while the
\* model artifact was whole and the explainer artifact missing
C14_Witness ==
    \E k \in 1..Len(calls) :
        /\ calls[k].fn = "train_model_if_needed"
        /\ calls[k].pc = "returned"
        /\ ~calls[k].trained
        /\ model_file.st = "complete"
        /\ explainer_file.st = "absent"

Between(lo, x, hi) == ~FLess(x, lo) /\ ~FLess(hi, x)

\* C15: the score of a predict_and_explain call lies in [300, 850]; it is
\* the raw prediction when that lies in [300, 850], else the nearer end of
\* the range; raw_score is the prediction as the model gave it.
C15_ScoreClamped ==
    \A k \in 1..Len(calls) :
        calls[k].pc = "returned" /\ calls[k].fn = "predict_and_explain"
        => LET c == calls[k]
           IN /\ Between(<<300, 1>>, c.score, <<850, 1>>)
              /\ c.raw_score \in RawPreds
              /\ Between(<<300, 1>>, c.raw_score, <<850, 1>>) => c.score = c.raw_score
              /\ FLess(c.raw_score, <<300, 1>>) => c.score = <<300, 1>>
              /\ FLess(<<850, 1>>, c.raw_score) => c.score = <<850, 1>>

\* a call whose model predicted 299 has returned the score 300
C15_Witness ==
    \E k \in 1..Len(calls) :
        /\ calls[k].pc = "returned"
        /\ calls[k].raw_score = <<299, 1>>
        /\ calls[k].score = <<300, 1>>

\* the place of a feature in the declaration order
Pos(fname) == CHOOSE i \in 1..Len(feature_cols) : feature_cols[i] = fname

\* C16: the attributions a predict_and_explain call returns are in
\* descending order of |shap_value|, and those of equal |shap_value| in the
\* order in which the features are declared.
C16_AttributionsRanked ==
    \A k \in 1..Len(calls) :
        calls[k].pc = "returned" =>
          \A i \in 1..(Len(calls[k].shap) - 1) :
            LET x == calls[k].shap[i]
                y == calls[k].shap[i + 1]
            IN /\ ~FLess(FAbs(x.shap_value), FAbs(y.shap_value))
               /\ FAbs(x.shap_value) = FAbs(y.shap_value)
                    => Pos(x.feature) < Pos(y.feature)

\* a call has returned six attributions, the first two of equal magnitude
\* and opposite sign
C16_Witness ==
    \E k \in 1..Len(calls) :
        /\ calls[k].pc = "returned"
        /\ Len(calls[k].shap) = Len(feature_cols)
        /\ calls[k].shap[1].shap_value = <<-2, 1>>
        /\ calls[k].shap[2].shap_value = <<2, 1>>

\* C17: the attribution step always ends in the return of the call, with the
\* score, raw_score and features computed before it, and when building or
\* evaluating the explainer raised, with no attribution at all.
C17_AttributionFailureIsEmpty ==
    [][\A k \in 1..Len(calls) :
         (calls[k].pc = "shap" /\ calls'[k].pc # "shap")
         => /\ calls'[k].pc = "returned"
            /\ calls'[k].score = calls[k].score
            /\ calls'[k].raw_score = calls[k].raw_score
            /\ calls'[k].features = calls[k].features
            /\ calls'[k].error # "" => calls'[k].shap = << >>
            /\ calls'[k].error = "" => Len(calls'[k].shap) = Len(feature_cols)]_vars

\* a call whose explainer gave fewer values than features has returned a
\* clamped score and no attribution
C17_Witness ==
    \E k \in 1..Len(calls) :
        /\ calls[k].pc = "returned"
        /\ calls[k].error = "IndexError"
        /\ calls[k].shap = << >>
        /\ calls[k].score = <<850, 1>>
        /\ calls[k].raw_score = <<851, 1>>

\* C18: for an issuer without Fundamentals compute_features_for_issuer
\* returns the six features, each exactly 0.0, whatever Events the issuer has.
C18_NoFundamentalsAllZero ==
    ( /\ feat.called
      /\ \A i \in 1..Len(fundamentals) : fundamentals[i].issuer_id # feat.issuer_id )
    => /\ DOMAIN feat.out = { feature_cols[i] : i \in 1..Len(feature_cols) }
       /\ feat.out.debt_to_ebitda = <<0, 1>>
       /\ feat.out.ebitda_margin = <<0, 1>>
       /\ feat.out.revenue_growth = <<0, 1>>
       /\ feat.out.avg_sentiment = <<0, 1>>
       /\ feat.out.recent_revenue = <<0, 1>>
       /\ feat.out.recent_total_debt = <<0, 1>>

\* the features of an issuer without Fundamentals, but with an Event whose
\* sentiment is not zero, were computed while another issuer had Fundamentals
C18_Witness ==
    /\ feat.called
    /\ \A i \in 1..Len(fundamentals) : fundamentals[i].issuer_id # feat.issuer_id
    /\ fundamentals # << >>
    /\ \E e \in 1..Len(events) :
         /\ events[e].issuer_id = feat.issuer_id
         /\ events[e].sentiment # None
         /\ events[e].sentiment # Zero

HasFundamentals(issuer_id) ==
    \E i \in 1..Len(fundamentals) : fundamentals[i].issuer_id = issuer_id

\* a - b, absent when an operand is absent
Minus(a, b) == IF a = None \/ b = None THEN None ELSE FSub(a, b)

\* C21: for an issuer with a Fundamental, with latest and prev the
\* Fundamentals of greatest and second-greatest report date, the features are
\* debt_to_ebitda = safe_div(latest.total_debt, latest.ebitda), ebitda_margin
\* = safe_div(latest.ebitda, latest.revenue) and revenue_growth =
\* safe_div(latest.revenue - prev.revenue, prev.revenue), 0.0 without prev,
\* where safe_div is 0.0 as soon as an operand is absent.
C21_RatiosOfLatestAndPrev ==
    (feat.called /\ HasFundamentals(feat.issuer_id)) =>
      \E f_rows \in query_fundamentals(fundamentals, feat.issuer_id) :
        LET latest == f_rows[1]
            prev   == f_rows[2]
        IN /\ feat.out.debt_to_ebitda = _safe_div(latest.total_debt, latest.ebitda)
           /\ feat.out.ebitda_margin = _safe_div(latest.ebitda, latest.revenue)
           /\ feat.out.revenue_growth =
                IF Len(f_rows) > 1
                THEN _safe_div(Minus(latest.revenue, prev.revenue), prev.revenue)
                ELSE Zero

\* the mean of the sentiments of the Events ids, in order
MeanSentiment(ids) ==
    IF ids = << >> THEN Zero
    ELSE truediv(FSum([k \in 1..Len(ids) |-> events[ids[k]].sentiment]),
                 <<Len(ids), 1>>).value

\* C22: avg_sentiment of an issuer with a Fundamental is the mean sentiment
\* of the 10 most recent of its Events that carry a sentiment, and 0.0 only
\* if it has none: Events without sentiment, as the price Events, take no
\* place in that window.
C22_WindowOfSentimentEvents ==
    (feat.called /\ HasFundamentals(feat.issuer_id)) =>
      \E q \in OrdersDesc({ i \in 1..Len(events) :
                               /\ events[i].issuer_id = feat.issuer_id
                               /\ events[i].sentiment # None },
                          [i \in 1..Len(events) |-> events[i].timestamp]) :
        feat.out.avg_sentiment = MeanSentiment(Take(q, EventsLimit))

\* C23: run_nlp_on_news takes every unprocessed NewsItem and is idempotent.
\* Once a run has returned, no NewsItem that existed when it started is
\* unprocessed; a run repeated at once, with no NewsItem added since the run
\* before it started, finds nothing to do, creates no Event, changes no
\* NewsItem and returns 0.
C23_NlpRunIdempotent ==
    /\ [](nlp.result = "returned" =>
            \A n \in 1..nlp.started : news[n].processed)
    /\ [][(nlp.result = "returned" /\ Len(news) = nlp.started /\ nlp'.running)
            => (nlp'.queue = << >> /\ nlp'.inserted = 0)]_vars
    /\ [][(nlp.running /\ nlp.queue = << >> /\ nlp'.result = "returned")
            => (nlp'.inserted = nlp.inserted /\ events' = events /\ news' = news)]_vars

\* a run that found every NewsItem processed by the run before it has
\* returned 0
C23_Witness ==
    /\ nlp.result = "returned"
    /\ nlp.inserted = 0
    /\ nlp.started = MaxNews
    /\ Len(events) = MaxNews
    /\ \A n \in 1..Len(news) : news[n].processed

\* issuer i is named in the title: its ticker (if it has one) or else its
\* name (if it has one) is a substring of the title, letter case aside
NamedIn(i, title) ==
    \/ /\ Issuers[i].ticker # None /\ Issuers[i].ticker # << >>
       /\ Contains(Lower(title), Lower(Issuers[i].ticker))
    \/ /\ Issuers[i].name # None /\ Issuers[i].name # << >>
       /\ Contains(Lower(title), Lower(Issuers[i].name))

C25_IncompleteEntryDiscarded ==
    rss.ran =>
      \A i \in 1..Len(Urls) : \A k \in 1..Len(feed[i].entries) :
        LET e == feed[i].entries[k]
        IN (Reached(i, k) /\ (Falsy(e.link) \/ Falsy(e.title)))
           => /\ rss.sources[i].out[k] = "discarded"
              /\ k < Len(feed[i].entries) => Reached(i, k + 1)

\* the provider answers for issuer i with nothing, or fails
NoResponse(i) == hist[i].raises \/ hist[i].rows = << >>

\* the samples of issuer j up to sample k carry usable figures
Usable(j, k) == \A m \in 1..k : ~hist[j].rows[m].nanVolume

\* a price Event of issuer j is stored for the utc day of its sample k
Stored(j, k) ==
    \E e \in PriceEvents :
       /\ events[e].issuer_id = j
       /\ DateOf(events[e].timestamp)
            = DateOf(pd_timestamp_to_datetime(hist[j].rows[k]))

\* C26: an empty or failed provider response for one issuer is skipped
\* without ending ingest_yahoo_prices: the call returns having handled every
\* issuer, each other issuer with a ticker has a price Event for the day of
\* each of its usable samples, and Events once stored stay stored.
C26_ProviderFailureSkipsIssuer ==
    /\ []((price.ran /\ price.same) =>
            \A i \in Tracked : NoResponse(i) =>
               /\ Len(price.issuers) = Len(Issuers)
               /\ price.issuers[i] \in {"", "ProviderError"}
               /\ \A j \in Tracked \ {i} : ~hist[j].raises =>
                     \A k \in 1..Len(hist[j].rows) : Usable(j, k) => Stored(j, k))
    /\ [][/\ Len(events') >= Len(events)
           /\ \A e \in 1..Len(events) : events'[e] = events[e]]_vars

\* a call met a failing provider for the first issuer and stored an Event
\* for the second; the Event of a call before it, for the first issuer, is
\* still stored
C26_Witness ==
    /\ price.ran /\ price.same
    /\ hist[1].raises /\ price.issuers[1] = "ProviderError"
    /\ price.inserted > 0
    /\ \E k \in 1..Len(hist[2].rows) : Usable(2, k) /\ Stored(2, k)
    /\ \E e \in PriceEvents : events[e].issuer_id = 1

Clamp(x, lo, hi) == IF FLess(x, lo) THEN lo ELSE IF FLess(hi, x) THEN hi ELSE x

\* the label the formula gives for a row and a draw
LabelOf(df_row, noise) ==
    Clamp(FAdd(FAdd(FAdd(FAdd(FSub(<<600, 1>>,
                                   Frac(100 * Clamp(df_row.debt_to_ebitda, Zero,
                                                    <<10, 1>>)[1],
                                        10 * Clamp(df_row.debt_to_ebitda, Zero,
                                                   <<10, 1>>)[2])),
                              FMul(<<150, 1>>,
                                   Clamp(df_row.revenue_growth, <<-1, 1>>, <<1, 1>>))),
                         FMul(<<100, 1>>,
                              Clamp(df_row.ebitda_margin, <<-1, 1>>, <<1, 1>>))),
                    FMul(<<100, 1>>,
                         Clamp(df_row.avg_sentiment, <<-1, 1>>, <<1, 1>>))),
               noise),
          <<300, 1>>, <<850, 1>>)

\* C27: for every feature row, a negative debt_to_ebitda included, the label
\* is the clamp to [300, 850] of 600 - 100 * clamp(debt_to_ebitda, 0, 10) / 10
\* + 150 * clamp(revenue_growth, -1, 1) + 100 * clamp(ebitda_margin, -1, 1)
\* + 100 * clamp(avg_sentiment, -1, 1) + noise; so the debt term never lifts
\* the label over the one of the same row with debt_to_ebitda = 0, and the
\* label lies in [300, 850].
C27_LabelFormula ==
    label.pc = "returned" =>
      /\ label.out = LabelOf(label.df_row, label.noise)
      /\ ~FLess(LabelOf([label.df_row EXCEPT !.debt_to_ebitda = Zero], label.noise),
                label.out)
      /\ ~FLess(label.out, <<300, 1>>)
      /\ ~FLess(<<850, 1>>, label.out)

\* C28: the explainer a predict_and_explain call loads from the explainer
\* artifact was built from the model that call loaded, and once no training
\* run is under way the explainer artifact holds the explainer of the
\* training run whose model the model artifact holds, also after runs whose
\* explainer build failed.
C28_ExplainerOfLoadedModel ==
    /\ \A k \in 1..Len(calls) :
          ( /\ calls[k].fn = "predict_and_explain"
            /\ calls[k].pc \in {"shap", "returned"}
            /\ calls[k].explainer # 0 )
          => calls[k].explainer = calls[k].model
    /\ ( /\ \A k \in 1..Len(calls) : ~Training(calls[k])
         /\ model_file.st = "complete"
         /\ explainer_file.st = "complete" )
       => explainer_file.run = model_file.run

TableOrder ==
    <<"earnings", "merger", "downgrade", "upgrade", "lawsuit", "management">>

\* a keyword of category c occurs in the lower-cased text
Matches(text, c) ==
    \E k \in 1..Len(KEYWORDS[c].kws) :
        Contains(Lower(OrEmpty(text)), KEYWORDS[c].kws[k])

\* C20: classify_event returns the first category, in the order earnings,
\* merger, downgrade, upgrade, lawsuit, management, one of whose keywords
\* occurs in the lower-cased text, and "other" when none does or the text is
\* empty or absent.
C20_FirstCategoryInTableOrder ==
    classify.pc = "returned" =>
      /\ \A c \in 1..Len(TableOrder) :
           (Matches(classify.text, c) /\ \A d \in 1..(c - 1) : ~Matches(classify.text, d))
           => classify.out = TableOrder[c]
      /\ (\A c \in 1..Len(TableOrder) : ~Matches(classify.text, c))
           => classify.out = "other"
      /\ Falsy(classify.text) => classify.out = "other"
      /\ classify.text = <<"C", "E", "O">> => classify.out = "management"

\* a text in upper case with keywords of two categories, the later category
\* first in the text, was classified
C20_Witness ==
    /\ classify.pc = "returned"
    /\ classify.text = <<"C", "E", "O", WS, "Q", "2">>
    /\ classify.out = "earnings"

====
